---- MODULE Spec2Model ----
(***************************************************************************)
(* Gate approval state machine of chromium-dashboard                       *)
(* (internals/approval_defs.py): the vote aggregator _calc_gate_state, the *)
(* vote submission coordinator set_vote, whose datastore reads and writes  *)
(* are separate steps that concurrent requests interleave, the approver    *)
(* resolver (get_approvers, fetch_owners) with its cache and its stored    *)
(* copy of the OWNERS document, and auto_assign_reviewer.                  *)
(***************************************************************************)
EXTENDS Integers, Sequences, FiniteSets, TLC

VARIABLES
  gates,    \* Gate store: gate id -> Gate entity, or NoGate
  votes,    \* Vote store: set of Vote entities (key, feature, gate, voter, state, set_on)
  clock,    \* wall clock that datetime.datetime.now() reads
  calls,    \* set_vote invocations: call id -> its arguments, locals and position
  cvotes,   \* argument `votes` of a direct _calc_gate_state evaluation
  crule,    \* argument `rule` of a direct _calc_gate_state evaluation
  cres,     \* the value that evaluation returned
  time,     \* the time the cache and OwnersFile.is_fresh() go by
  cache,    \* rediscache: gate type -> approvers entry with its expiry, or NoEntry
  owners_file,  \* OwnersFile stored for API_OWNERS_URL, or NoFile
  gate_defs,    \* GateDef store: gate type -> approvers and rotation_url
  acall,    \* the latest get_approvers or fetch_owners call and its outcome
  window,   \* gate type -> end of the TTL window that the latest call to
            \* find the entry expired opened (0: no such call yet)
  fcall,    \* the latest fields_approvable_by call: its user, its position
            \* in the loop over the catalog and its outcome
  assignee_emails,  \* Gate.assignee_emails, by gate id
  assign    \* the latest auto_assign_reviewer call and its outcome

voteVars == <<gates, votes, clock, calls>>
calcVars == <<cvotes, crule, cres>>
approverVars == <<time, cache, owners_file, gate_defs, acall, window, fcall>>
assignVars == <<assignee_emails, assign>>
sideVars == <<approverVars, assignVars>>
vars == <<voteVars, calcVars, approverVars, assignVars>>

\* ---------------------------------------------------------------- bounds
MaxCalls == 2     \* concurrent set_vote invocations in one behaviour
MaxVotes == 3     \* length of a vote list given directly to _calc_gate_state
MaxTime == 2      \* distinct set_on values in such a list
MaxClock == 3     \* last value of the time the caches go by
MaxLookups == 4   \* get_approvers and fetch_owners calls in one behaviour
MaxAssigns == 2   \* auto_assign_reviewer calls in one behaviour
MaxChecks == 2    \* fields_approvable_by calls in one behaviour

\* ------------------------------------------------------------ vocabulary
ONE_LGTM == "One LGTM"
THREE_LGTM == "Three LGTMs"
Rules == {ONE_LGTM, THREE_LGTM}

NO_RESPONSE == "NO_RESPONSE"
NEEDS_WORK == "NEEDS_WORK"
REVIEW_REQUESTED == "REVIEW_REQUESTED"
REVIEW_STARTED == "REVIEW_STARTED"
INTERNAL_REVIEW == "INTERNAL_REVIEW"
DENIED == "DENIED"
APPROVED == "APPROVED"
NA == "NA"
NA_REQUESTED == "NA_REQUESTED"
NA_SELF == "NA_SELF"
NA_VERIFIED == "NA_VERIFIED"
PREPARING == "PREPARING"

\* Vote.VOTE_VALUES: the defined vote states.
VOTE_VALUES ==
  {NO_RESPONSE, NEEDS_WORK, REVIEW_REQUESTED, REVIEW_STARTED, INTERNAL_REVIEW,
   DENIED, APPROVED, NA, NA_REQUESTED, NA_SELF, NA_VERIFIED}

\* The states the "most recent" loop of _calc_gate_state looks for.
ReviewStates ==
  {NEEDS_WORK, REVIEW_STARTED, REVIEW_REQUESTED, DENIED, INTERNAL_REVIEW,
   NA_REQUESTED}

\* ------------------------------------------------------ _calc_gate_state
\* collections.Counter(v.state for v in votes)[s]
Counter(vs, s) == Cardinality({i \in DOMAIN vs : vs[i].state = s})

\* votes = [v for v in votes if v.state != Vote.NO_RESPONSE]
Responded(v) == v.state # NO_RESPONSE
WithoutNoResponse(vs) == SelectSeq(vs, Responded)

\* sorted(votes, reverse=True, key=lambda v: v.set_on): a stable sort, so
\* votes with equal set_on keep the order they have in the input list.
RECURSIVE SortedReverse(_)
SortedReverse(vs) ==
  IF vs = <<>> THEN <<>>
  ELSE LET n == Len(vs)
           head == SortedReverse(SubSeq(vs, 1, n - 1))
           v == vs[n]
           k == Cardinality({i \in DOMAIN head : head[i].set_on >= v.set_on})
       IN SubSeq(head, 1, k) \o <<v>> \o SubSeq(head, k + 1, Len(head))

\* Mutant: the votes are sorted oldest first.
OldestReview(vs) ==
  LET s == SortedReverse(vs)
      hits == {i \in DOMAIN s : s[i].state \in ReviewStates}
  IN IF hits = {} THEN "none"
     ELSE s[CHOOSE i \in hits : \A j \in hits : i >= j].state

\* The for loop over the sorted votes: the first vote in a review state.
MostRecentReview(vs) ==
  LET s == SortedReverse(vs)
      hits == {i \in DOMAIN s : s[i].state \in ReviewStates}
  IN IF hits = {} THEN "none"
     ELSE s[CHOOSE i \in hits : \A j \in hits : i <= j].state

\* Mutant: NO_RESPONSE votes are not discarded, so they count as "other votes".
CalcKeepingNoResponse(votes_in, rule) ==
  LET vs == votes_in
      num_lgtms == Counter(vs, APPROVED) + Counter(vs, NA)
      recent == MostRecentReview(vs)
  IN IF Counter(vs, NA_SELF) = 1 /\ rule = ONE_LGTM /\ Len(vs) = 1
       THEN NA_SELF
     ELSE IF Counter(vs, NA_SELF) = 1 /\ rule = ONE_LGTM
             /\ Counter(vs, NA_VERIFIED) >= 1
       THEN NA_VERIFIED
     ELSE IF (rule = ONE_LGTM /\ num_lgtms >= 1)
             \/ (rule = THREE_LGTM /\ num_lgtms >= 3)
       THEN (IF Counter(vs, NA) > 0 THEN NA ELSE APPROVED)
     ELSE IF recent # "none" THEN recent
     ELSE IF rule = THREE_LGTM /\ num_lgtms >= 1 THEN REVIEW_REQUESTED
     ELSE PREPARING

\* Mutant: the self-certified NA path is dropped.
CalcWithoutNaSelf(votes_in, rule) ==
  LET vs == WithoutNoResponse(votes_in)
      num_lgtms == Counter(vs, APPROVED) + Counter(vs, NA)
      recent == MostRecentReview(vs)
  IN IF (rule = ONE_LGTM /\ num_lgtms >= 1)
        \/ (rule = THREE_LGTM /\ num_lgtms >= 3)
       THEN (IF Counter(vs, NA) > 0 THEN NA ELSE APPROVED)
     ELSE IF recent # "none" THEN recent
     ELSE IF rule = THREE_LGTM /\ num_lgtms >= 1 THEN REVIEW_REQUESTED
     ELSE PREPARING

\* Mutant: an NA vote no longer turns an approval into NA.
CalcIgnoringNa(votes_in, rule) ==
  LET vs == WithoutNoResponse(votes_in)
      num_lgtms == Counter(vs, APPROVED) + Counter(vs, NA)
      recent == MostRecentReview(vs)
  IN IF Counter(vs, NA_SELF) = 1 /\ rule = ONE_LGTM /\ Len(vs) = 1
       THEN NA_SELF
     ELSE IF Counter(vs, NA_SELF) = 1 /\ rule = ONE_LGTM
             /\ Counter(vs, NA_VERIFIED) >= 1
       THEN NA_VERIFIED
     ELSE IF (rule = ONE_LGTM /\ num_lgtms >= 1)
             \/ (rule = THREE_LGTM /\ num_lgtms >= 3)
       THEN APPROVED
     ELSE IF recent # "none" THEN recent
     ELSE IF rule = THREE_LGTM /\ num_lgtms >= 1 THEN REVIEW_REQUESTED
     ELSE PREPARING

\* Mutant: under THREE_LGTM two approvals are taken for the quorum.
CalcQuorumOfTwo(votes_in, rule) ==
  LET vs == WithoutNoResponse(votes_in)
      num_lgtms == Counter(vs, APPROVED) + Counter(vs, NA)
      recent == MostRecentReview(vs)
  IN IF Counter(vs, NA_SELF) = 1 /\ rule = ONE_LGTM /\ Len(vs) = 1
       THEN NA_SELF
     ELSE IF Counter(vs, NA_SELF) = 1 /\ rule = ONE_LGTM
             /\ Counter(vs, NA_VERIFIED) >= 1
       THEN NA_VERIFIED
     ELSE IF (rule = ONE_LGTM /\ num_lgtms >= 1)
             \/ (rule = THREE_LGTM /\ num_lgtms >= 2)
       THEN (IF Counter(vs, NA) > 0 THEN NA ELSE APPROVED)
     ELSE IF recent # "none" THEN recent
     ELSE IF rule = THREE_LGTM /\ num_lgtms >= 1 THEN REVIEW_REQUESTED
     ELSE PREPARING

\* Mutant: the quorum rule is evaluated before the self-certification path.
CalcQuorumFirst(votes_in, rule) ==
  LET vs == WithoutNoResponse(votes_in)
      num_lgtms == Counter(vs, APPROVED) + Counter(vs, NA)
      recent == MostRecentReview(vs)
  IN IF (rule = ONE_LGTM /\ num_lgtms >= 1)
        \/ (rule = THREE_LGTM /\ num_lgtms >= 3)
       THEN (IF Counter(vs, NA) > 0 THEN NA ELSE APPROVED)
     ELSE IF Counter(vs, NA_SELF) = 1 /\ rule = ONE_LGTM /\ Len(vs) = 1
       THEN NA_SELF
     ELSE IF Counter(vs, NA_SELF) = 1 /\ rule = ONE_LGTM
             /\ Counter(vs, NA_VERIFIED) >= 1
       THEN NA_VERIFIED
     ELSE IF recent # "none" THEN recent
     ELSE IF rule = THREE_LGTM /\ num_lgtms >= 1 THEN REVIEW_REQUESTED
     ELSE PREPARING

\* Mutant: the fall-through answers NO_RESPONSE instead of Gate.PREPARING.
CalcDefaultNoResponse(votes_in, rule) ==
  LET vs == WithoutNoResponse(votes_in)
      num_lgtms == Counter(vs, APPROVED) + Counter(vs, NA)
      recent == MostRecentReview(vs)
  IN IF Counter(vs, NA_SELF) = 1 /\ rule = ONE_LGTM /\ Len(vs) = 1
       THEN NA_SELF
     ELSE IF Counter(vs, NA_SELF) = 1 /\ rule = ONE_LGTM
             /\ Counter(vs, NA_VERIFIED) >= 1
       THEN NA_VERIFIED
     ELSE IF (rule = ONE_LGTM /\ num_lgtms >= 1)
             \/ (rule = THREE_LGTM /\ num_lgtms >= 3)
       THEN (IF Counter(vs, NA) > 0 THEN NA ELSE APPROVED)
     ELSE IF recent # "none" THEN recent
     ELSE IF rule = THREE_LGTM /\ num_lgtms >= 1 THEN REVIEW_REQUESTED
     ELSE NO_RESPONSE

\* Mutant: the most recent review-state vote is looked for before the quorum.
CalcReviewFirst(votes_in, rule) ==
  LET vs == WithoutNoResponse(votes_in)
      num_lgtms == Counter(vs, APPROVED) + Counter(vs, NA)
      recent == MostRecentReview(vs)
  IN IF Counter(vs, NA_SELF) = 1 /\ rule = ONE_LGTM /\ Len(vs) = 1
       THEN NA_SELF
     ELSE IF Counter(vs, NA_SELF) = 1 /\ rule = ONE_LGTM
             /\ Counter(vs, NA_VERIFIED) >= 1
       THEN NA_VERIFIED
     ELSE IF recent # "none" THEN recent
     ELSE IF (rule = ONE_LGTM /\ num_lgtms >= 1)
             \/ (rule = THREE_LGTM /\ num_lgtms >= 3)
       THEN (IF Counter(vs, NA) > 0 THEN NA ELSE APPROVED)
     ELSE IF rule = THREE_LGTM /\ num_lgtms >= 1 THEN REVIEW_REQUESTED
     ELSE PREPARING

\* def _calc_gate_state(votes, rule)
_calc_gate_state(votes_in, rule) ==
  LET vs == WithoutNoResponse(votes_in)
      num_lgtms == Counter(vs, APPROVED) + Counter(vs, NA)
      recent == MostRecentReview(vs)
  IN IF Counter(vs, NA_SELF) = 1 /\ rule = ONE_LGTM /\ Len(vs) = 1
       THEN NA_SELF
     ELSE IF Counter(vs, NA_SELF) = 1 /\ rule = ONE_LGTM
             /\ Counter(vs, NA_VERIFIED) >= 1
       THEN NA_VERIFIED
     ELSE IF (rule = ONE_LGTM /\ num_lgtms >= 1)
             \/ (rule = THREE_LGTM /\ num_lgtms >= 3)
       THEN (IF Counter(vs, NA) > 0 THEN NA ELSE APPROVED)
     ELSE IF recent # "none" THEN recent
     ELSE IF rule = THREE_LGTM /\ num_lgtms >= 1 THEN REVIEW_REQUESTED
     ELSE PREPARING


\* ---------------------------------------------------------- gate catalog
GATE_API_PROTOTYPE == "GATE_API_PROTOTYPE"
GATE_API_SHIP == "GATE_API_SHIP"
GATE_PRIVACY_ORIGIN_TRIAL == "GATE_PRIVACY_ORIGIN_TRIAL"
GATE_PRIVACY_SHIP == "GATE_PRIVACY_SHIP"
GATE_TESTING_SHIP == "GATE_TESTING_SHIP"
GATE_UNKNOWN == "GATE_UNKNOWN"     \* a gate type the catalog does not have

API_OWNERS_URL == "https://chromium.googlesource.com/.../API_OWNERS?format=TEXT"
IN_NDB == "stored in ndb"
\* TESTING_APPROVERS, its first two addresses.
TESTING_APPROVERS == <<"sadapala@google.com", "santhoshkumarm@google.com">>

\* GateInfo.approvers is a str (a URL or IN_NDB) or a list of addresses.
StrApprovers(x) == [str |-> x]
ListApprovers(x) == [list |-> x]
IsStr(approvers) == "str" \in DOMAIN approvers

PrototypeApproval ==
  [rule |-> ONE_LGTM, approvers |-> StrApprovers(API_OWNERS_URL),
   team_name |-> "API Owners"]
ShipApproval ==
  [rule |-> THREE_LGTM, approvers |-> StrApprovers(API_OWNERS_URL),
   team_name |-> "API Owners"]
PrivacyOriginTrialApproval ==
  [rule |-> ONE_LGTM, approvers |-> StrApprovers(IN_NDB),
   team_name |-> "Privacy"]
PrivacyShipApproval ==
  [rule |-> ONE_LGTM, approvers |-> StrApprovers(IN_NDB),
   team_name |-> "Privacy"]
TestingShipApproval ==
  [rule |-> ONE_LGTM, approvers |-> ListApprovers(TESTING_APPROVERS),
   team_name |-> "Testing"]

\* APPROVAL_FIELDS_BY_ID, reduced to five of its entries and to the fields
\* rule, approvers and team_name.
APPROVAL_FIELDS_BY_ID ==
  [t \in {GATE_API_PROTOTYPE, GATE_API_SHIP, GATE_PRIVACY_ORIGIN_TRIAL,
          GATE_PRIVACY_SHIP, GATE_TESTING_SHIP} |->
     CASE t = GATE_API_PROTOTYPE -> PrototypeApproval
       [] t = GATE_API_SHIP -> ShipApproval
       [] t = GATE_PRIVACY_ORIGIN_TRIAL -> PrivacyOriginTrialApproval
       [] t = GATE_PRIVACY_SHIP -> PrivacyShipApproval
       [] t = GATE_TESTING_SHIP -> TestingShipApproval]

\* afd = APPROVAL_FIELDS_BY_ID.get(gate.gate_type)
\* Mutant: a gate type outside the catalog is given the stricter rule.
RuleOfStrict(gate_type) ==
  IF gate_type \in DOMAIN APPROVAL_FIELDS_BY_ID
    THEN APPROVAL_FIELDS_BY_ID[gate_type].rule
    ELSE THREE_LGTM

\* rule = afd.rule if afd else ONE_LGTM
RuleOf(gate_type) ==
  IF gate_type \in DOMAIN APPROVAL_FIELDS_BY_ID
    THEN APPROVAL_FIELDS_BY_ID[gate_type].rule
    ELSE ONE_LGTM

\* ---------------------------------------------------------------- stores
None == "None"
NoGate == [feature_id |-> 0, gate_type |-> None, state |-> None]
NoKey == 0
NoId == 0

FeatureId == 1          \* the one feature of the model
GateId == 1             \* id of the gate that exists
MissingGateId == 2      \* a gate id under which no Gate is stored
GateIds == {GateId, MissingGateId}
Voters == {"u1", "u2"}
INVALID == "INVALID"    \* a new_state outside Vote.VOTE_VALUES
CallIds == 1..(MaxCalls + 1)

\* Vote.is_valid_state(new_state)
is_valid_state(new_state) == new_state \in VOTE_VALUES

\* Vote.get_votes(feature_id=, gate_id=, set_by=): the rows matching every
\* filter that is given (None: no filter).
get_votes(feature_id, gate_id, set_by) ==
  {v \in votes :
     /\ (feature_id = NoId \/ v.feature_id = feature_id)
     /\ (gate_id = NoId \/ v.gate_id = gate_id)
     /\ (set_by = None \/ v.set_by = set_by)}

\* A query returns its rows as a list in an order the store chooses.
Listings(S) ==
  {f \in [1..Cardinality(S) -> S] : \A x \in S : \E i \in DOMAIN f : f[i] = x}

\* get_gate_by_type: Gate.query(feature_id ==, gate_type ==).fetch()
GatesByType(feature_id, gate_type) ==
  {g \in GateIds :
     /\ gates[g] # NoGate
     /\ gates[g].feature_id = feature_id
     /\ gates[g].gate_type = gate_type}

\* entity.put(): insert the entity, or overwrite the stored one with its key.
PutRow(store, row) == {v \in store : v.key # row.key} \cup {row}

\* key.delete()
DeleteKey(store, key) == {v \in store : v.key # key}

\* A set_vote invocation that has not started.  gate_id is the resolved
\* gate id; has_gate, gate_type and gate_state are the Gate entity the call
\* loaded (its in-RAM copy).  slo counts the calls of slo.record_vote,
\* slo_old is the old_gate_state it was given and slo_ret what it returned.
\* The denormalised gate_type of a Vote row is read by none of this code
\* and is left out of the rows.
IdleCall ==
  [pc |-> "idle", by |-> None, new_state |-> None, gate_id |-> NoId,
   gate_type |-> None, has_gate |-> FALSE, gate_state |-> None, now |-> 0,
   existing |-> NoKey, new_vote |-> NoKey, lost |-> FALSE, slo |-> 0,
   slo_old |-> None, slo_ret |-> FALSE, wrote_gate |-> FALSE, ret |-> None,
   raised |-> FALSE]

InProgress(c) == calls[c].pc \notin {"idle", "done"}
Quiescent == \A c \in CallIds : ~InProgress(c)

\* ------------------------------------------------------------- set_vote
\* Mutant: new_state is validated before the gate is looked up.
StartValidatesFirst(c, by, new_state, gate_type, gate_id) ==
  /\ calls[c].pc = "idle"
  /\ c = clock + 1
  /\ clock' = clock + 1
  /\ ~(gate_id = NoId /\ gate_type = None)
  /\ LET base == [IdleCall EXCEPT !.by = by, !.new_state = new_state]
     IN IF ~is_valid_state(new_state)
          THEN calls' = [calls EXCEPT ![c] =
                           [base EXCEPT !.pc = "done", !.raised = TRUE]]
          ELSE IF gate_id = NoId /\ GatesByType(FeatureId, gate_type) = {}
            THEN calls' = [calls EXCEPT ![c] = [base EXCEPT !.pc = "done"]]
            ELSE \E g \in (IF gate_id = NoId
                            THEN GatesByType(FeatureId, gate_type)
                            ELSE {gate_id}) :
                   calls' = [calls EXCEPT ![c] =
                               [base EXCEPT !.gate_id = g,
                                            !.gate_type = gates[g].gate_type,
                                            !.has_gate = (gates[g] # NoGate),
                                            !.gate_state = gates[g].state,
                                            !.pc = "clock"]]
  /\ UNCHANGED <<gates, votes, calcVars, sideVars>>

\* Lines 336-350: entry of the call, gate resolution and validation.
\* gate_id = NoId with a gate type: lookup by feature and type; otherwise
\* Gate.get_by_id(gate_id).  Calls are numbered in the order they enter, and
\* each enters at a later instant than the calls before it: the clock shows
\* the instant of the latest entry.  A call reads the clock in a later step,
\* so calls that overlap may read the same value, and a call that entered
\* first may read a later value than one that entered after it.
Start(c, by, new_state, gate_type, gate_id) ==
  /\ calls[c].pc = "idle"
  /\ c = clock + 1
  /\ clock' = clock + 1
  /\ ~(gate_id = NoId /\ gate_type = None)
  /\ LET base == [IdleCall EXCEPT !.by = by, !.new_state = new_state]
         by_type == gate_id = NoId /\ gate_type # None
     IN IF by_type /\ GatesByType(FeatureId, gate_type) = {}
          THEN \* 'Gate entity not found': return None
               calls' = [calls EXCEPT ![c] = [base EXCEPT !.pc = "done"]]
          ELSE \E g \in (IF by_type
                          THEN GatesByType(FeatureId, gate_type)
                          ELSE {gate_id}) :
                 LET gate == gates[g]
                     found == [base EXCEPT
                                 !.gate_id = g,
                                 !.gate_type = gate.gate_type,
                                 !.has_gate = (gate # NoGate),
                                 !.gate_state = gate.state]
                 IN IF ~is_valid_state(new_state)
                      THEN \* raise ValueError('Invalid approval state')
                           calls' = [calls EXCEPT ![c] =
                                       [base EXCEPT !.pc = "done",
                                                    !.raised = TRUE]]
                      ELSE calls' = [calls EXCEPT ![c] =
                                       [found EXCEPT !.pc = "clock"]]
  /\ UNCHANGED <<gates, votes, calcVars, sideVars>>

\* Line 353: now = datetime.datetime.now()
ReadClock(c) ==
  /\ calls[c].pc = "clock"
  /\ calls' = [calls EXCEPT ![c].now = clock, ![c].pc = "query"]
  /\ UNCHANGED <<gates, votes, clock, calcVars, sideVars>>

\* Lines 354-357: existing_list = Vote.get_votes(...); existing_list[0]
QueryExisting(c) ==
  /\ calls[c].pc = "query"
  /\ LET existing_list == get_votes(FeatureId, calls[c].gate_id, calls[c].by)
     IN IF existing_list = {}
          THEN calls' = [calls EXCEPT ![c].pc = "put"]
          ELSE \E e \in existing_list :
                 calls' = [calls EXCEPT ![c].existing = e.key, ![c].pc = "put"]
  /\ UNCHANGED <<gates, votes, clock, calcVars, sideVars>>

\* Mutant: an existing row keeps the set_on it had.
WrittenRowKeepingTime(c) ==
  LET old == {v \in votes : v.key = calls[c].existing}
  IN [key |-> IF calls[c].existing # NoKey THEN calls[c].existing ELSE c,
      feature_id |-> FeatureId, gate_id |-> calls[c].gate_id,
      set_by |-> calls[c].by, state |-> calls[c].new_state,
      set_on |-> IF old # {} THEN (CHOOSE v \in old : TRUE).set_on
                             ELSE calls[c].now]

\* The row the call writes: the existing entity with state and set_on
\* replaced, or a new Vote entity.
WrittenRow(c) ==
  [key |-> IF calls[c].existing # NoKey THEN calls[c].existing ELSE c,
   feature_id |-> FeatureId, gate_id |-> calls[c].gate_id,
   set_by |-> calls[c].by, state |-> calls[c].new_state,
   set_on |-> calls[c].now]

\* Mutant: the call always inserts a new row, also when one exists.
PutVoteAlwaysNew(c) ==
  /\ calls[c].pc = "put"
  /\ votes' = PutRow(votes, [WrittenRow(c) EXCEPT !.key = c])
  /\ calls' = [calls EXCEPT
                 ![c].new_vote = c,
                 ![c].pc = IF calls[c].has_gate THEN "requery" ELSE "done"]
  /\ UNCHANGED <<gates, clock, calcVars, sideVars>>

\* Lines 356-364: existing.put() or new_vote.put(); line 367: if gate.
PutVote(c) ==
  /\ calls[c].pc = "put"
  /\ votes' = PutRow(votes, WrittenRow(c))
  /\ calls' = [calls EXCEPT
                 ![c].new_vote = IF calls[c].existing = NoKey THEN c ELSE NoKey,
                 ![c].pc = IF calls[c].has_gate THEN "requery" ELSE "done"]
  /\ UNCHANGED <<gates, clock, calcVars, sideVars>>

\* double_votes = [v for v in votes if v.set_by == set_by_email
\*                                     and v.set_on < now]
DoubleVotes(listing, by, now) ==
  {i \in DOMAIN listing : listing[i].set_by = by /\ listing[i].set_on < now}

\* update_gate_approval_state(gate, votes): the state it leaves in gate.state;
\* it returns True iff that differs from the state the gate had.
update_gate_approval_state(gate_type, listing) ==
  _calc_gate_state(listing, RuleOf(gate_type))

\* slo.record_vote(gate, votes, old_gate_state): whether it changed the
\* gate's SLO fields; any answer is possible.
SloAnswers == BOOLEAN

\* Mutant: a call that lost the race goes on to update the gate.
RequeryNoBackOut(c) ==
  /\ calls[c].pc = "requery"
  /\ \E listing \in Listings(get_votes(NoId, calls[c].gate_id, None)) :
     \E slo_was_updated \in SloAnswers :
       LET new_state == update_gate_approval_state(calls[c].gate_type, listing)
           state_was_updated == new_state # calls[c].gate_state
       IN calls' = [calls EXCEPT
                      ![c].lost = calls[c].new_vote # NoKey
                                  /\ DoubleVotes(listing, calls[c].by,
                                                 calls[c].now) # {},
                      ![c].slo = 1,
                      ![c].slo_old = calls[c].gate_state,
                      ![c].slo_ret = slo_was_updated,
                      ![c].gate_state = new_state,
                      ![c].pc = IF state_was_updated \/ slo_was_updated
                                  THEN "gateput" ELSE "done"]
  /\ UNCHANGED <<gates, votes, clock, calcVars, sideVars>>

\* Mutant: the gate is persisted only when its state changed.
RequeryIgnoringSlo(c) ==
  /\ calls[c].pc = "requery"
  /\ \E listing \in Listings(get_votes(NoId, calls[c].gate_id, None)) :
       IF calls[c].new_vote # NoKey
          /\ DoubleVotes(listing, calls[c].by, calls[c].now) # {}
         THEN calls' = [calls EXCEPT ![c].lost = TRUE, ![c].pc = "delete"]
         ELSE \E slo_was_updated \in SloAnswers :
                LET new_state ==
                      update_gate_approval_state(calls[c].gate_type, listing)
                    state_was_updated == new_state # calls[c].gate_state
                IN calls' = [calls EXCEPT
                               ![c].slo = calls[c].slo + 1,
                               ![c].slo_old = calls[c].gate_state,
                               ![c].slo_ret = slo_was_updated,
                               ![c].gate_state = new_state,
                               ![c].pc = IF state_was_updated
                                           THEN "gateput" ELSE "done"]
  /\ UNCHANGED <<gates, votes, clock, calcVars, sideVars>>

\* Lines 368-380: votes = Vote.get_votes(gate_id=...), the double vote
\* check, update_gate_approval_state and slo.record_vote.
Requery(c) ==
  /\ calls[c].pc = "requery"
  /\ \E listing \in Listings(get_votes(NoId, calls[c].gate_id, None)) :
       IF calls[c].new_vote # NoKey
          /\ DoubleVotes(listing, calls[c].by, calls[c].now) # {}
         THEN \* this handler lost the race
              calls' = [calls EXCEPT ![c].lost = TRUE, ![c].pc = "delete"]
         ELSE \E slo_was_updated \in SloAnswers :
                LET new_state ==
                      update_gate_approval_state(calls[c].gate_type, listing)
                    state_was_updated == new_state # calls[c].gate_state
                IN calls' = [calls EXCEPT
                               ![c].slo = calls[c].slo + 1,
                               ![c].slo_old = calls[c].gate_state,
                               ![c].slo_ret = slo_was_updated,
                               ![c].gate_state = new_state,
                               ![c].pc = IF state_was_updated \/ slo_was_updated
                                           THEN "gateput" ELSE "done"]
  /\ UNCHANGED <<gates, votes, clock, calcVars, sideVars>>

\* Mutant: the call deletes the earlier rows of the voter, not its own.
DeleteEarlier(c) ==
  /\ calls[c].pc = "delete"
  /\ votes' = {v \in votes :
                 ~(/\ v.gate_id = calls[c].gate_id
                   /\ v.set_by = calls[c].by
                   /\ v.set_on < calls[c].now)}
  /\ calls' = [calls EXCEPT ![c].pc = "done"]
  /\ UNCHANGED <<gates, clock, calcVars, sideVars>>

\* Lines 374-375: new_vote.key.delete(); return None
DeleteOwn(c) ==
  /\ calls[c].pc = "delete"
  /\ votes' = DeleteKey(votes, calls[c].new_vote)
  /\ calls' = [calls EXCEPT ![c].pc = "done"]
  /\ UNCHANGED <<gates, clock, calcVars, sideVars>>

\* Lines 381-382: gate.put(); return gate.state
GatePut(c) ==
  /\ calls[c].pc = "gateput"
  /\ gates' = [gates EXCEPT ![calls[c].gate_id].state = calls[c].gate_state]
  /\ calls' = [calls EXCEPT ![c].wrote_gate = TRUE,
                            ![c].ret = calls[c].gate_state,
                            ![c].pc = "done"]
  /\ UNCHANGED <<votes, clock, calcVars, sideVars>>

\* The ways a caller addresses a gate: by feature and gate type (a type
\* for which the feature has no gate included), or by gate id (an id under
\* which no gate is stored included).
Targets ==
  ({GATE_API_PROTOTYPE, GATE_API_SHIP} \X {NoId}) \cup ({None} \X GateIds)

\* The targets that resolve to the stored gate.
ExistingTargets ==
  {t \in Targets :
     IF t[2] = NoId THEN GatesByType(FeatureId, t[1]) # {}
                    ELSE gates[t[2]] # NoGate}

\* A valid request on the stored gate arrives.
StartValid(c) ==
  \E by \in Voters, s \in {REVIEW_REQUESTED, APPROVED}, t \in ExistingTargets :
    Start(c, by, s, t[1], t[2])

\* The same, a withdrawal of the vote (NO_RESPONSE) included.
StartSeq(c) ==
  \E by \in Voters, s \in {NO_RESPONSE, REVIEW_REQUESTED, APPROVED},
     t \in ExistingTargets :
    Start(c, by, s, t[1], t[2])

\* Any request arrives: the vote state may be undefined and the gate absent.
StartArbitrary(c) ==
  \E by \in Voters, s \in {APPROVED, INVALID}, t \in Targets :
    Start(c, by, s, t[1], t[2])

\* ---------------------------------------------------- approver resolver
\* CACHE_EXPIRATION, one hour, with the time counted in half hours.
CACHE_EXPIRATION == 2

\* OwnersFile.is_fresh(): the stored copy is younger than one hour.
is_fresh(file, now) == now - file.created_on < CACHE_EXPIRATION

\* A line of an OWNERS document, as decode_raw_owner_content sees it: the
\* text left when the comment is cut off and the rest stripped, and whether
\* that text has an '@' and a '.'.
OwnerA == [text |-> "a@chromium.org", has_at |-> TRUE, has_dot |-> TRUE]
OwnerB == [text |-> "b@chromium.org", has_at |-> TRUE, has_dot |-> TRUE]
CommentLine == [text |-> "", has_at |-> FALSE, has_dot |-> FALSE]
Directive == [text |-> "set noparent", has_at |-> FALSE, has_dot |-> FALSE]

\* The documents the URL may serve: one without any owner, and one with two.
Contents == {<<CommentLine, Directive>>, <<OwnerB, CommentLine, OwnerA>>}

\* def decode_raw_owner_content(raw_content)
IsOwnerLine(line) == line.has_at /\ line.has_dot
decode_raw_owner_content(raw_content) ==
  LET kept == SelectSeq(raw_content, IsOwnerLine)
  IN [i \in DOMAIN kept |-> kept[i].text]

\* What requests.get(url) does: it returns a response with status 200 and
\* a body, returns a response with another status, or raises (connection
\* error, timeout).
OK == "200"
BAD_STATUS == "not 200"
RAISES == "raises"
NO_REQUEST == "no request"
OwnersResponses ==
  [kind : {OK}, content : Contents]
    \cup [kind : {BAD_STATUS, RAISES}, content : {<<>>}]

NoFile == [stored |-> FALSE, raw_content |-> <<>>, created_on |-> 0]
\* OwnersFile(url=url, raw_content=content).add_owner_file()
StoredFile(content, now) ==
  [stored |-> TRUE, raw_content |-> content, created_on |-> now]

\* def fetch_owners(url): the owners it returns, the OwnersFile it leaves
\* stored, the number of requests it made, what the request did, and
\* whether the call raised.
fetch_owners(file, now, resp) ==
  IF file.stored /\ is_fresh(file, now)
    THEN \* 'Using fresh owners_file'
         [owners |-> decode_raw_owner_content(file.raw_content), file |-> file,
          fetched |-> 0, resp |-> NO_REQUEST, raised |-> FALSE]
  ELSE IF resp.kind = RAISES
    THEN \* requests.get(url) raises, and nothing here catches it
         [owners |-> <<>>, file |-> file,
          fetched |-> 1, resp |-> RAISES, raised |-> TRUE]
  ELSE IF resp.kind = OK
    THEN [owners |-> decode_raw_owner_content(resp.content),
          file |-> StoredFile(resp.content, now),
          fetched |-> 1, resp |-> OK, raised |-> FALSE]
  ELSE IF file.stored
    THEN \* 'Marking stale owners_file as fresh'
         [owners |-> decode_raw_owner_content(file.raw_content),
          file |-> StoredFile(file.raw_content, now),
          fetched |-> 1, resp |-> BAD_STATUS, raised |-> FALSE]
  ELSE \* 'No stored owners_file available.  Using [].'
       [owners |-> <<>>, file |-> file,
        fetched |-> 1, resp |-> BAD_STATUS, raised |-> FALSE]

\* rediscache: an entry is gone once its time to live has passed.
NoEntry == [value |-> <<>>, expires |-> 0]
Live(gate_type) == cache[gate_type] # NoEntry /\ time < cache[gate_type].expires
Expired(gate_type) ==
  cache[gate_type] # NoEntry /\ time >= cache[gate_type].expires

\* The record of a call: what was called and for which gate type, what it
\* returned, the requests it made, what the request did, whether it raised.
\* seq numbers the calls.
NoCall ==
  [seq |-> 0, op |-> None, gate_type |-> None, result |-> <<>>,
   fetched |-> 0, resp |-> NO_REQUEST, raised |-> FALSE]
CallRecord(op, gate_type, result, fetched, resp, raised) ==
  [seq |-> acall.seq + 1, op |-> op, gate_type |-> gate_type,
   result |-> result, fetched |-> fetched, resp |-> resp, raised |-> raised]

\* fetch_owners(API_OWNERS_URL), called on its own.
FetchOwners ==
  /\ acall.seq < MaxLookups
  /\ \E resp \in OwnersResponses :
       LET r == fetch_owners(owners_file, time, resp)
       IN /\ owners_file' = r.file
          /\ acall' = CallRecord("fetch_owners", None, r.owners, r.fetched,
                                 r.resp, r.raised)
  /\ UNCHANGED <<time, cache, gate_defs, window, fcall,
                 voteVars, calcVars, assignVars>>

\* GateDef.get_gate_def(gate_type): the stored definition of a gate type
\* whose approvers are kept in the datastore.
NdbTypes == {GATE_PRIVACY_ORIGIN_TRIAL, GATE_PRIVACY_SHIP}
get_gate_def(gate_type) == gate_defs[gate_type]

\* Lines 297-308 of get_approvers: the owners resolved from the catalog
\* entry, in the shape of a fetch_owners outcome.
ResolveOwners(gate_type, resp) ==
  LET afd == APPROVAL_FIELDS_BY_ID[gate_type]
      quiet == [owners |-> <<>>, file |-> owners_file, fetched |-> 0,
                resp |-> NO_REQUEST, raised |-> FALSE]
  IN IF afd.approvers = StrApprovers(IN_NDB)
       THEN [quiet EXCEPT !.owners = get_gate_def(gate_type).approvers]
     ELSE IF IsStr(afd.approvers)
       THEN fetch_owners(owners_file, time, resp)
     ELSE [quiet EXCEPT !.owners = afd.approvers.list]

\* def get_approvers(gate_type)
get_approvers(gate_type) ==
  IF gate_type \notin DOMAIN APPROVAL_FIELDS_BY_ID
    THEN /\ acall' = CallRecord("get_approvers", gate_type, <<>>, 0,
                                NO_REQUEST, FALSE)
         /\ UNCHANGED <<cache, owners_file, window>>
  ELSE IF Live(gate_type) /\ cache[gate_type].value # <<>>
    THEN \* if cached_approvers: return cached_approvers
         /\ acall' = CallRecord("get_approvers", gate_type,
                                cache[gate_type].value, 0, NO_REQUEST, FALSE)
         /\ UNCHANGED <<cache, owners_file, window>>
  ELSE \E resp \in OwnersResponses :
         LET r == ResolveOwners(gate_type, resp)
         IN /\ owners_file' = r.file
            /\ acall' = CallRecord("get_approvers", gate_type, r.owners,
                                   r.fetched, r.resp, r.raised)
            /\ IF r.raised
                 THEN UNCHANGED <<cache, window>>
                 ELSE \* rediscache.set(cache_key, owners, time=CACHE_EXPIRATION)
                      /\ cache' = [cache EXCEPT ![gate_type] =
                                     [value |-> r.owners,
                                      expires |-> time + CACHE_EXPIRATION]]
                      /\ window' = IF Expired(gate_type)
                                     THEN [window EXCEPT ![gate_type] =
                                             time + CACHE_EXPIRATION]
                                     ELSE window

GetApprovers(gate_type) ==
  /\ acall.seq < MaxLookups
  /\ get_approvers(gate_type)
  /\ UNCHANGED <<time, gate_defs, fcall, voteVars, calcVars, assignVars>>

\* Time passes.
Tick ==
  /\ time < MaxClock
  /\ time' = time + 1
  /\ UNCHANGED <<cache, owners_file, gate_defs, acall, window, fcall,
                 voteVars, calcVars, assignVars>>

\* ------------------------------------------------- fields_approvable_by
\* The order in which the loop over APPROVAL_FIELDS_BY_ID visits its keys:
\* the order of the list the dict is built from.
CatalogOrder ==
  <<GATE_API_PROTOTYPE, GATE_API_SHIP, GATE_PRIVACY_ORIGIN_TRIAL,
    GATE_PRIVACY_SHIP, GATE_TESTING_SHIP>>

Range(seq) == {seq[i] : i \in DOMAIN seq}

\* permissions.can_admin_site(user)
can_admin_site(user) == user.is_admin

\* The users that ask: a site admin, and others whose address is an owner
\* in the OWNERS document, an approver kept in the datastore, a testing
\* approver, or nobody's.
Users ==
  [is_admin : {TRUE}, email : {"admin@google.com"}]
    \cup [is_admin : {FALSE},
          email : {"a@chromium.org", "p@google.com", "sadapala@google.com",
                   "nobody@example.com"}]

\* No fields_approvable_by call yet.  n numbers the calls, i is the position
\* of the loop in CatalogOrder, result the set built so far.
NoFields ==
  [n |-> 0, pc |-> "idle", is_admin |-> FALSE, email |-> None, i |-> 0,
   result |-> {}, raised |-> FALSE]

\* Lines 316-319: the admin test.  An admin gets every key of the catalog
\* at once; for anyone else the loop over the catalog begins.
FieldsStart(user) ==
  /\ fcall.pc \in {"idle", "done"}
  /\ fcall.n < MaxChecks
  /\ fcall' = IF can_admin_site(user)
                THEN [NoFields EXCEPT !.n = fcall.n + 1, !.pc = "done",
                                      !.is_admin = TRUE, !.email = user.email,
                                      !.result = DOMAIN APPROVAL_FIELDS_BY_ID]
                ELSE [NoFields EXCEPT !.n = fcall.n + 1, !.pc = "loop",
                                      !.email = user.email, !.i = 1]
  /\ UNCHANGED <<time, cache, owners_file, gate_defs, acall, window,
                 voteVars, calcVars, assignVars>>

\* Mutant: a gate type is taken as soon as it has any approver.
FieldsLookupAnyApprover ==
  /\ fcall.pc = "loop"
  /\ get_approvers(CatalogOrder[fcall.i])
  /\ fcall' =
       IF acall'.raised
         THEN [fcall EXCEPT !.pc = "done", !.raised = TRUE, !.result = {}]
         ELSE [fcall EXCEPT
                 !.result = IF acall'.result # <<>>
                              THEN fcall.result \cup {CatalogOrder[fcall.i]}
                              ELSE fcall.result,
                 !.i = fcall.i + 1,
                 !.pc = IF fcall.i = Len(CatalogOrder) THEN "done" ELSE "loop"]
  /\ UNCHANGED <<time, gate_defs, voteVars, calcVars, assignVars>>

\* Lines 320-323: one turn of the set comprehension, the get_approvers call
\* for the next gate type; the set is returned after the last turn.  An
\* exception of get_approvers ends the call.
FieldsLookup ==
  /\ fcall.pc = "loop"
  /\ get_approvers(CatalogOrder[fcall.i])
  /\ fcall' =
       IF acall'.raised
         THEN [fcall EXCEPT !.pc = "done", !.raised = TRUE, !.result = {}]
         ELSE [fcall EXCEPT
                 !.result = IF fcall.email \in Range(acall'.result)
                              THEN fcall.result \cup {CatalogOrder[fcall.i]}
                              ELSE fcall.result,
                 !.i = fcall.i + 1,
                 !.pc = IF fcall.i = Len(CatalogOrder) THEN "done" ELSE "loop"]
  /\ UNCHANGED <<time, gate_defs, voteVars, calcVars, assignVars>>

\* ------------------------------------------------ auto_assign_reviewer
ROTATION_URL == "https://rotation.example/current"

\* What json.loads(response.content) makes of a body: whether it parses,
\* whether the value supports `in` with a key (an object), and the emails
\* field of an object that has one.
NotJson ==
  [parses |-> FALSE, is_object |-> FALSE, has_emails |-> FALSE, emails |-> <<>>]
JsonNumber ==
  [parses |-> TRUE, is_object |-> FALSE, has_emails |-> FALSE, emails |-> <<>>]
JsonWithoutEmails ==
  [parses |-> TRUE, is_object |-> TRUE, has_emails |-> FALSE, emails |-> <<>>]
JsonWithEmails ==
  [parses |-> TRUE, is_object |-> TRUE, has_emails |-> TRUE,
   emails |-> <<"oncall@google.com">>]
NoBody == [parses |-> FALSE, is_object |-> FALSE, has_emails |-> FALSE,
           emails |-> <<"none">>]
Bodies == {NotJson, JsonNumber, JsonWithoutEmails, JsonWithEmails}

\* What requests.get(gate_def.rotation_url) does.
RotationResponses ==
  [kind : {OK}, body : Bodies] \cup [kind : {BAD_STATUS, RAISES}, body : {NoBody}]

\* Gate.query(Gate.feature_id == gate.feature_id).fetch(), as a set.
GatesOfFeature(feature_id) ==
  {o \in GateIds : gates[o] # NoGate /\ gates[o].feature_id = feature_id}

\* Mutant: the approval rule of the other gate's type is not compared.
ReusableIgnoringRule(g, o) ==
  LET afd == APPROVAL_FIELDS_BY_ID[gates[g].gate_type]
      other_afd == APPROVAL_FIELDS_BY_ID[gates[o].gate_type]
  IN /\ o # g
     /\ other_afd.team_name = afd.team_name
     /\ assignee_emails[o] # <<>>

\* The test of lines 254-257 on other_gate.
ReusableAssignment(g, o) ==
  LET afd == APPROVAL_FIELDS_BY_ID[gates[g].gate_type]
      other_afd == APPROVAL_FIELDS_BY_ID[gates[o].gate_type]
  IN /\ o # g
     /\ other_afd.team_name = afd.team_name
     /\ other_afd.rule = afd.rule
     /\ assignee_emails[o] # <<>>

\* def auto_assign_reviewer(gate), for the stored gate g, with the order in
\* which the query lists the feature's gates and what the rotation request
\* does: the assignees the gate has afterwards, whether it was put, what
\* the request did, the body it returned, and whether the call raised.
auto_assign_reviewer(g, all_gates, resp) ==
  LET gate_type == gates[g].gate_type
      keep == [emails |-> assignee_emails[g], put |-> FALSE,
               resp |-> NO_REQUEST, body |-> NoBody, raised |-> FALSE]
      unknown(o) == gates[o].gate_type \notin DOMAIN APPROVAL_FIELDS_BY_ID
  IN IF gate_type \notin DOMAIN APPROVAL_FIELDS_BY_ID
       THEN \* line 249: KeyError
            [keep EXCEPT !.raised = TRUE]
     ELSE
       LET afd == APPROVAL_FIELDS_BY_ID[gate_type]
           stops == {i \in DOMAIN all_gates :
                       \/ unknown(all_gates[i])
                       \/ ReusableAssignment(g, all_gates[i])}
           first == CHOOSE i \in stops : \A j \in stops : i <= j
       IN IF stops # {}
            THEN IF unknown(all_gates[first])
                   THEN \* line 253: KeyError
                        [keep EXCEPT !.raised = TRUE]
                   ELSE [keep EXCEPT
                           !.emails = assignee_emails[all_gates[first]],
                           !.put = TRUE]
          ELSE IF afd.approvers # StrApprovers(IN_NDB) THEN keep
          ELSE IF get_gate_def(gate_type).rotation_url = None THEN keep
          ELSE IF resp.kind = RAISES
            THEN \* requests.get raises, and nothing here catches it
                 [keep EXCEPT !.resp = RAISES, !.raised = TRUE]
          ELSE IF resp.kind = BAD_STATUS
            THEN [keep EXCEPT !.resp = BAD_STATUS]
          ELSE IF ~resp.body.parses
            THEN \* ValueError is caught, then line 282 reads response_json,
                 \* which was never bound: UnboundLocalError
                 [keep EXCEPT !.resp = OK, !.body = resp.body, !.raised = TRUE]
          ELSE IF ~resp.body.is_object
            THEN \* 'emails' in response_json: TypeError
                 [keep EXCEPT !.resp = OK, !.body = resp.body, !.raised = TRUE]
          ELSE IF resp.body.has_emails
            THEN [keep EXCEPT !.resp = OK, !.body = resp.body,
                              !.emails = resp.body.emails, !.put = TRUE]
          ELSE [keep EXCEPT !.resp = OK, !.body = resp.body]

\* The record of an auto_assign_reviewer call; n numbers the calls.
NoAssign ==
  [n |-> 0, gate_id |-> NoId, put |-> FALSE, resp |-> NO_REQUEST,
   body |-> NoBody, raised |-> FALSE]

AutoAssign(g) ==
  /\ assign.n < MaxAssigns
  /\ gates[g] # NoGate
  /\ \E all_gates \in Listings(GatesOfFeature(gates[g].feature_id)),
        resp \in RotationResponses :
       LET out == auto_assign_reviewer(g, all_gates, resp)
       IN /\ assignee_emails' = [assignee_emails EXCEPT ![g] = out.emails]
          /\ assign' = [n |-> assign.n + 1, gate_id |-> g, put |-> out.put,
                        resp |-> out.resp, body |-> out.body,
                        raised |-> out.raised]
  /\ UNCHANGED <<voteVars, calcVars, approverVars>>

\* The state after the gate was provisioned: it exists with one of the
\* catalog's gate types, in state PREPARING, and nobody has voted.
VoteInit ==
  /\ \E t \in {GATE_API_PROTOTYPE, GATE_API_SHIP} :
       gates = [g \in GateIds |->
                  IF g = GateId
                    THEN [feature_id |-> FeatureId, gate_type |-> t,
                          state |-> PREPARING]
                    ELSE NoGate]
  /\ votes = {}
  /\ clock = 0
  /\ calls = [c \in CallIds |-> IdleCall]

CalcIdle ==
  /\ cvotes = <<>>
  /\ crule = ONE_LGTM
  /\ cres = PREPARING

\* Nothing is cached and no OWNERS copy is stored; the approvers stored
\* for the datastore-backed gate types are given.
NoGateDef == [approvers |-> <<>>, rotation_url |-> None]
ApproverStart(defs) ==
  /\ time = 0
  /\ cache = [t \in DOMAIN APPROVAL_FIELDS_BY_ID |-> NoEntry]
  /\ owners_file = NoFile
  /\ gate_defs = defs
  /\ acall = NoCall
  /\ window = [t \in DOMAIN APPROVAL_FIELDS_BY_ID |-> 0]
  /\ fcall = NoFields
ApproverIdle == ApproverStart([t \in NdbTypes |-> NoGateDef])

\* No gate has assignees and auto_assign_reviewer has not been called.
AssignIdle ==
  /\ assignee_emails = [g \in GateIds |-> <<>>]
  /\ assign = NoAssign

Init == VoteInit /\ CalcIdle /\ ApproverIdle /\ AssignIdle

Next ==
  \/ \E c \in 1..MaxCalls : StartValid(c)
  \/ \E c \in CallIds : ReadClock(c)
  \/ \E c \in CallIds : QueryExisting(c)
  \/ \E c \in CallIds : PutVote(c)
  \/ \E c \in CallIds : Requery(c)
  \/ \E c \in CallIds : DeleteOwn(c)
  \/ \E c \in CallIds : GatePut(c)

\* Concurrent set_vote requests, interleaved at their store operations.
Spec == Init /\ [][Next]_vars

\* Requests served one after the other: a call starts only when no other
\* call is in progress.  No call loses a race then (C5 checks that no call
\* reaches the back-out), so the back-out step DeleteOwn is not among the
\* steps of SeqNext.
SeqStart == Quiescent /\ \E c \in CallIds : StartSeq(c)

SeqNext ==
  \/ SeqStart
  \/ \E c \in CallIds : ReadClock(c)
  \/ \E c \in CallIds : QueryExisting(c)
  \/ \E c \in CallIds : PutVote(c)
  \/ \E c \in CallIds : Requery(c)
  \/ \E c \in CallIds : GatePut(c)

SeqSpec == Init /\ [][SeqNext]_vars

\* Concurrent requests with arbitrary arguments.
ArgNext ==
  \/ \E c \in 1..MaxCalls : StartArbitrary(c)
  \/ \E c \in CallIds : ReadClock(c)
  \/ \E c \in CallIds : QueryExisting(c)
  \/ \E c \in CallIds : PutVote(c)
  \/ \E c \in CallIds : Requery(c)
  \/ \E c \in CallIds : DeleteOwn(c)
  \/ \E c \in CallIds : GatePut(c)

ArgSpec == Init /\ [][ArgNext]_vars


\* ------------------------------------------ _calc_gate_state, evaluated
\* Vote states of the lists evaluated directly: NO_RESPONSE, two of the
\* review states, both approving states and both self-certification states.
CalcStates ==
  {NO_RESPONSE, REVIEW_REQUESTED, DENIED, APPROVED, NA, NA_SELF, NA_VERIFIED}
Times == 1..MaxTime

InsertAt(vs, i, v) == SubSeq(vs, 1, i) \o <<v>> \o SubSeq(vs, i + 1, Len(vs))
RemoveAt(vs, i) == SubSeq(vs, 1, i - 1) \o SubSeq(vs, i + 1, Len(vs))

\* A vote joins the list at any position, and the state is computed.
AddVote(i, st, t) ==
  /\ Len(cvotes) < MaxVotes
  /\ i \in 0..Len(cvotes)
  /\ cvotes' = InsertAt(cvotes, i, [state |-> st, set_on |-> t])
  /\ cres' = _calc_gate_state(cvotes', crule)
  /\ UNCHANGED <<crule, voteVars, sideVars>>

\* A vote leaves the list, and the state is computed.
RemoveVote(i) ==
  /\ i \in DOMAIN cvotes
  /\ cvotes' = RemoveAt(cvotes, i)
  /\ cres' = _calc_gate_state(cvotes', crule)
  /\ UNCHANGED <<crule, voteVars, sideVars>>

CalcInit ==
  /\ VoteInit /\ ApproverIdle /\ AssignIdle
  /\ cvotes = <<>>
  /\ crule \in Rules
  /\ cres = _calc_gate_state(cvotes, crule)

CalcNext ==
  \/ \E i \in 0..MaxVotes, st \in CalcStates, t \in Times : AddVote(i, st, t)
  \/ \E i \in 1..MaxVotes : RemoveVote(i)

CalcSpec == CalcInit /\ [][CalcNext]_vars


\* ------------------- _calc_gate_state, evaluated and then used by set_vote
\* The aggregator is evaluated on vote lists given directly while no request
\* has arrived; once the list is empty again, requests with valid states (the
\* withdrawal of a vote included) are served one after the other.
\* The vote states of those lists: NO_RESPONSE, a review state, an approval
\* and both self-certification states.
WithdrawStates == {NO_RESPONSE, REVIEW_REQUESTED, APPROVED, NA_SELF, NA_VERIFIED}

EvaluateAdded(i, st, t) == clock = 0 /\ AddVote(i, st, t)
EvaluateRemoved(i) == clock = 0 /\ RemoveVote(i)
ServeNext == cvotes = <<>> /\ SeqStart

WithdrawNext ==
  \/ \E i \in 0..MaxVotes, st \in WithdrawStates, t \in Times :
       EvaluateAdded(i, st, t)
  \/ \E i \in 1..MaxVotes : EvaluateRemoved(i)
  \/ ServeNext
  \/ \E c \in CallIds : ReadClock(c)
  \/ \E c \in CallIds : QueryExisting(c)
  \/ \E c \in CallIds : PutVote(c)
  \/ \E c \in CallIds : Requery(c)
  \/ \E c \in CallIds : GatePut(c)

WithdrawSpec == CalcInit /\ [][WithdrawNext]_vars


\* ----------------------------------- set_vote on a gate of a retired type
\* The stored gate was provisioned when its gate type was in the catalog;
\* the type has been removed since.  Requests address the gate by its id
\* and are served one after the other.
LegacyInit ==
  /\ gates = [g \in GateIds |->
                IF g = GateId
                  THEN [feature_id |-> FeatureId, gate_type |-> GATE_UNKNOWN,
                        state |-> PREPARING]
                  ELSE NoGate]
  /\ votes = {}
  /\ clock = 0
  /\ calls = [c \in CallIds |-> IdleCall]
  /\ CalcIdle /\ ApproverIdle /\ AssignIdle

LegacySpec == LegacyInit /\ [][SeqNext]_vars


\* ------------------------------------------------ get_approvers, called
\* The gate types get_approvers is called with: one with the OWNERS URL,
\* one kept in the datastore, one with a fixed list, one unknown.
ApproverCallTypes ==
  {GATE_API_PROTOTYPE, GATE_PRIVACY_SHIP, GATE_TESTING_SHIP, GATE_UNKNOWN}

\* The approvers a GateDef may hold.
NdbApprovers == {<<>>, <<"p@google.com">>}

ApproverInit ==
  /\ VoteInit /\ CalcIdle /\ AssignIdle
  /\ \E a \in NdbApprovers :
       ApproverStart([t \in NdbTypes |-> [NoGateDef EXCEPT !.approvers = a]])

ApproverNext ==
  \/ \E t \in ApproverCallTypes : GetApprovers(t)
  \/ FetchOwners
  \/ Tick

ApproverSpec == ApproverInit /\ [][ApproverNext]_vars

\* ------------------------------------------ fields_approvable_by, called
\* Users ask one after the other which gate types they may approve, and
\* get_approvers is also asked about a gate type the catalog does not have.
\* A call takes far less than the half hour the time is counted in: time
\* passes between the calls.
Pause == fcall.pc # "loop" /\ Tick

ApprovableNext ==
  \/ \E user \in Users : FieldsStart(user)
  \/ FieldsLookup
  \/ GetApprovers(GATE_UNKNOWN)
  \/ Pause

ApprovableSpec == ApproverInit /\ [][ApprovableNext]_vars

\* ----------------------------------------- auto_assign_reviewer, called
\* The gate types of the feature's gates: two of one team and rule kept in
\* the datastore, one with a fixed list of approvers, and two of one team
\* with different rules.
AssignTypes ==
  {GATE_PRIVACY_ORIGIN_TRIAL, GATE_PRIVACY_SHIP, GATE_TESTING_SHIP,
   GATE_API_PROTOTYPE, GATE_API_SHIP}
Assignees == {<<>>, <<"reviewer@google.com">>}

\* The feature has two gates of different types, each with or without
\* assignees, and the gate types kept in the datastore have a rotation URL
\* or none.
AssignInit ==
  /\ votes = {} /\ clock = 0 /\ calls = [c \in CallIds |-> IdleCall]
  /\ CalcIdle
  /\ \E types \in [GateIds -> AssignTypes] :
       /\ \A g, o \in GateIds : g # o => types[g] # types[o]
       /\ gates = [g \in GateIds |->
                     [feature_id |-> FeatureId, gate_type |-> types[g],
                      state |-> PREPARING]]
  /\ \E url \in {None, ROTATION_URL} :
       ApproverStart([t \in NdbTypes |-> [NoGateDef EXCEPT !.rotation_url = url]])
  /\ assignee_emails \in [GateIds -> Assignees]
  /\ assign = NoAssign

AssignNext == \E g \in GateIds : AutoAssign(g)

AssignSpec == AssignInit /\ [][AssignNext]_vars

\* =============================================================== claims
RowsOf(gate_id, by) == get_votes(NoId, gate_id, by)
Finished(c) == calls[c].pc = "done"
Started(c) == calls[c].pc # "idle"

\* The calls that have read the clock observed pairwise different timestamps.
DistinctTimestamps ==
  \A a, b \in CallIds :
    (a # b /\ calls[a].now # 0 /\ calls[b].now # 0)
    => calls[a].now # calls[b].now

NoDoubleRows == \A by \in Voters : Cardinality(RowsOf(GateId, by)) <= 1

\* No two of the calls made so far are by the same voter.
DifferentVoters ==
  \A a, b \in CallIds :
    (a # b /\ Started(a) /\ Started(b)) => calls[a].by # calls[b].by

\* C1: once every concurrent set_vote call has finished, the store holds at
\* most one Vote row for each (gate, voter) pair.  Stated for the runs of
\* the claim in which no two calls observed the same timestamp.
C1_AtMostOneRowPerVoter ==
  (Quiescent /\ DistinctTimestamps) => NoDoubleRows

\* C2: whenever no set_vote call is in progress and at least one call on the
\* gate has completed, the stored gate state is _calc_gate_state of the Vote
\* rows stored for the gate (in some order of the rows) under the gate's rule.
\* Stated for the runs of the claim in which the calls are made by different
\* voters and no two calls observed the same timestamp.
C2_GateStateIsDerived ==
  ( /\ Quiescent /\ DifferentVoters /\ DistinctTimestamps
    /\ \E c \in CallIds : Finished(c) /\ calls[c].has_gate )
  => \E listing \in Listings(get_votes(NoId, GateId, None)) :
       gates[GateId].state
         = _calc_gate_state(listing, RuleOf(gates[GateId].gate_type))

\* C3: when two concurrent calls of one voter on one gate, with different
\* vote states, both created a row (neither found an existing one), then
\* once both have finished exactly one row of the voter survives: the row
\* of the call that observed the earlier timestamp, with that call's state,
\* and the other call returned None.
C3_EarlierWriteSurvives ==
  \A a, b \in CallIds :
    ( /\ Quiescent
      /\ Finished(a) /\ Finished(b)
      /\ calls[a].by = calls[b].by
      /\ calls[a].gate_id = GateId /\ calls[b].gate_id = GateId
      /\ calls[a].new_vote # NoKey /\ calls[b].new_vote # NoKey
      /\ calls[a].new_state # calls[b].new_state
      /\ calls[a].now < calls[b].now )
    => /\ RowsOf(GateId, calls[a].by)
            = {[key |-> a, feature_id |-> FeatureId, gate_id |-> GateId,
                set_by |-> calls[a].by, state |-> calls[a].new_state,
                set_on |-> calls[a].now]}
       /\ calls[b].ret = None
       /\ ~calls[b].wrote_gate

\* The double vote check of a call, on the rows now stored for its gate.
SeesDoubleVote(c) ==
  /\ calls[c].new_vote # NoKey
  /\ \E v \in get_votes(NoId, calls[c].gate_id, None) :
       v.set_by = calls[c].by /\ v.set_on < calls[c].now

\* C4: a call that created a row and, on reloading the votes, finds a row
\* of the same voter with an earlier set_on backs out: it deletes exactly
\* the row it created, returns None without raising, neither changes nor
\* persists the gate, and does not invoke the SLO recorder.
C4_LostRaceBacksOut ==
  [][\A c \in CallIds :
       /\ (calls[c].pc = "requery" /\ calls'[c].pc # "requery"
           /\ SeesDoubleVote(c))
          => /\ calls'[c].pc = "delete"
             /\ calls'[c].slo = 0
             /\ votes' = votes /\ gates' = gates
       /\ (calls[c].pc = "delete" /\ calls'[c].pc # "delete")
          => /\ Finished(c)'
             /\ votes' = {v \in votes : v.key # calls[c].new_vote}
             /\ calls[c].new_vote = c
             /\ gates' = gates
             /\ calls'[c].ret = None /\ ~calls'[c].raised
             /\ calls'[c].slo = 0 /\ ~calls'[c].wrote_gate
    ]_vars

\* A call lost the race, backed out and returned, while the row of the
\* call that won is stored.
C4_Witness ==
  \E c \in CallIds :
    /\ Finished(c) /\ calls[c].lost
    /\ RowsOf(GateId, calls[c].by) # {}

\* Call c re-submits what the call before it submitted: same voter, same
\* gate, same vote state.
Resubmits(c) ==
  /\ c - 1 \in CallIds
  /\ Started(c)
  /\ calls[c].by = calls[c - 1].by
  /\ calls[c].new_state = calls[c - 1].new_state

\* C5: while a call runs that re-submits, right after it, the vote of the
\* previous call, the stored gate state does not change and the voter
\* keeps exactly one Vote row on the gate; and no call served after the
\* others have returned backs out as the loser of a race.
C5_ResubmissionIsIdempotent ==
  [][\A c \in CallIds :
       /\ (Resubmits(c)' /\ clock' = c)
          => /\ gates'[GateId].state = gates[GateId].state
             /\ Cardinality(RowsOf(GateId, calls[c].by)') = 1
       /\ calls'[c].pc # "delete"
    ]_vars

\* A re-submission returned after it wrote the gate (the SLO recorder
\* reported a change), with the vote of another voter stored as well.
C5_Witness ==
  \E c \in CallIds :
    /\ Resubmits(c) /\ Finished(c) /\ calls[c].wrote_gate
    /\ \E v \in votes : v.set_by # calls[c].by /\ v.state # NO_RESPONSE

\* C6: a call with a defined vote state whose target gate does not exist
\* returns None without raising, and no Vote row is recorded for a gate
\* that does not exist.
C6_NoVoteWithoutGate ==
  /\ \A c \in CallIds :
       (Finished(c) /\ ~calls[c].has_gate /\ is_valid_state(calls[c].new_state))
       => calls[c].ret = None /\ ~calls[c].raised
  /\ \A v \in votes : gates[v.gate_id] # NoGate

\* C7 as stated: every call whose new_state is not a defined vote state
\* ends with ValueError.
C7_InvalidStateAlwaysRaises ==
  \A c \in CallIds :
    (Finished(c) /\ ~is_valid_state(calls[c].new_state)) => calls[c].raised

\* C7 amended: a call whose new_state is not a defined vote state ends at
\* once and leaves the Vote and Gate stores unchanged; it raises ValueError,
\* except that it returns None without raising when the gate is addressed
\* by feature and gate type and the feature has no gate of that type.
C7_InvalidStateRejected ==
  [][\A c \in CallIds, by \in Voters, t \in Targets :
       Start(c, by, INVALID, t[1], t[2])
       => /\ votes' = votes /\ gates' = gates
          /\ Finished(c)'
          /\ calls'[c].ret = None
          /\ calls'[c].raised
               <=> ~(t[2] = NoId /\ GatesByType(FeatureId, t[1]) = {})
    ]_vars

\* A call with an undefined state was rejected with ValueError while votes
\* are stored, and another one returned None for want of a gate.
C7_Witness ==
  /\ votes # {}
  /\ \E c \in CallIds :
       Finished(c) /\ calls[c].new_state = INVALID /\ calls[c].raised

\* C17: a call on a stored gate that did not lose a race invokes the SLO
\* recorder exactly once, together with the recomputation, and hands it the
\* state the gate had before the recomputation (the state of the gate as
\* the call loaded it).  It goes on to persist the gate if and only if the
\* recomputed state differs from that state or the recorder reported a
\* change; then it writes the recomputed state to the gate and returns it.
\* Otherwise it returns None and the Gate store is not written.
C17_PersistsIffChanged ==
  [][\A c \in CallIds :
       /\ (calls[c].pc = "requery" /\ calls'[c].pc \notin {"requery", "delete"})
          => /\ calls[c].slo = 0 /\ calls'[c].slo = 1
             /\ calls'[c].slo_old = calls[c].gate_state
             /\ gates' = gates
             /\ calls'[c].pc = "gateput"
                  <=> \/ calls'[c].gate_state # calls[c].gate_state
                      \/ calls'[c].slo_ret
             /\ calls'[c].pc # "gateput"
                  => /\ Finished(c)' /\ calls'[c].ret = None
                     /\ ~calls'[c].wrote_gate
       /\ (calls[c].pc = "gateput" /\ calls'[c].pc # "gateput")
          => /\ Finished(c)' /\ calls'[c].slo = 1
             /\ gates' = [gates EXCEPT ![calls[c].gate_id].state =
                                         calls[c].gate_state]
             /\ calls'[c].ret = calls[c].gate_state
    ]_vars

\* One call persisted the gate because its state changed though the
\* recorder reported nothing, and another because the recorder reported a
\* change while the state stayed the same.
C17_Witness ==
  \E c, d \in CallIds :
    /\ Finished(c) /\ calls[c].wrote_gate /\ ~calls[c].slo_ret
    /\ calls[c].slo_old # calls[c].ret
    /\ Finished(d) /\ calls[d].wrote_gate /\ calls[d].slo_ret
    /\ calls[d].slo_old = calls[d].ret

\* The keys of the Vote rows that this step inserts, changes or deletes.
TouchedKeys == {v.key : v \in (votes \ votes') \cup (votes' \ votes)}

\* C18: every step that changes the Vote or Gate store is a step of one
\* set_vote call.  A call writes a Vote row only in its one put step: one
\* row, of the calling voter and the target gate.  It deletes only the row
\* it created itself, writes the Gate store only in its one gate.put()
\* step, and there only the target gate; all other rows stay as they are.
C18_WritesOnlyItsOwnRows ==
  [][\/ votes' = votes /\ gates' = gates
     \/ \E c \in CallIds :
          /\ calls'[c] # calls[c]
          /\ \A d \in CallIds \ {c} : calls'[d] = calls[d]
          /\ Cardinality(TouchedKeys) <= 1
          /\ \A v \in votes' \ votes :
               /\ calls[c].pc = "put"
               /\ v.set_by = calls[c].by
               /\ v.gate_id = calls[c].gate_id
          /\ \A v \in votes \ votes' :
               \/ /\ calls[c].pc = "put"
                  /\ v.set_by = calls[c].by
                  /\ v.gate_id = calls[c].gate_id
                  /\ \E w \in votes' : w.key = v.key
               \/ /\ calls[c].pc = "delete"
                  /\ v.key = c /\ calls[c].new_vote = c
          /\ \A g \in GateIds :
               gates'[g] # gates[g]
               => /\ calls[c].pc = "gateput"
                  /\ g = calls[c].gate_id
                  /\ gates[g] # NoGate /\ gates'[g] # NoGate
    ]_vars

\* A call has changed the row of an earlier call in place and written the
\* gate: the row under the earlier call's key carries this call's timestamp.
C18_Witness ==
  \E c \in CallIds :
    /\ Finished(c) /\ calls[c].existing # NoKey /\ calls[c].wrote_gate
    /\ \E v \in votes :
         /\ v.key = calls[c].existing /\ v.key # c
         /\ v.gate_id = calls[c].gate_id /\ v.set_on = calls[c].now

\* The calls of a voter that have returned.
FinishedCallsOf(by) == {c \in CallIds : Finished(c) /\ calls[c].by = by}
First(cs) == CHOOSE c \in cs : \A d \in cs : c <= d
Last(cs) == CHOOSE c \in cs : \A d \in cs : c >= d

\* C19: after calls served one after the other on the stored gate, every
\* voter who has voted has exactly one Vote row, the row the voter's first
\* call created, and it holds the state and the timestamp of the voter's
\* last call; and the gate state is the aggregate of the stored rows, in
\* whatever order they are listed.
C19_LastWriteWins ==
  Quiescent
  => /\ \A by \in Voters :
          LET cs == FinishedCallsOf(by)
          IN cs # {}
             => RowsOf(GateId, by)
                  = {[key |-> First(cs), feature_id |-> FeatureId,
                      gate_id |-> GateId, set_by |-> by,
                      state |-> calls[Last(cs)].new_state,
                      set_on |-> calls[Last(cs)].now]}
     /\ \A listing \in Listings(get_votes(NoId, GateId, None)) :
          gates[GateId].state
            = _calc_gate_state(listing, RuleOf(gates[GateId].gate_type))

\* One voter has made three calls, the last with another state than the
\* one before, and they have all returned.
C19_Witness ==
  /\ Quiescent
  /\ \E by \in Voters : FinishedCallsOf(by) = CallIds
  /\ calls[MaxCalls + 1].new_state # calls[MaxCalls].new_state
  /\ calls[MaxCalls].new_state # calls[1].new_state

\* ------------------------------------------------ claims on the aggregator
NumLgtms(vs) == Counter(vs, APPROVED) + Counter(vs, NA)
Quorum(rule) == IF rule = THREE_LGTM THEN 3 ELSE 1

\* No vote in another state is later than any of the approvals.
NoLaterContradiction(vs) ==
  \A i, j \in DOMAIN vs :
    (vs[i].state \notin {APPROVED, NA} /\ vs[j].state \in {APPROVED, NA})
    => vs[i].set_on <= vs[j].set_on

\* Under ONE_LGTM, exactly one NA_SELF vote together with an NA_VERIFIED vote.
SelfCertifiedVerified(vs, rule) ==
  rule = ONE_LGTM /\ Counter(vs, NA_SELF) = 1 /\ Counter(vs, NA_VERIFIED) >= 1

\* C8 as stated: when the APPROVED or NA votes reach the quorum of the rule
\* and no vote in another state is later than them, the result is NA if a
\* vote is NA and APPROVED otherwise.
C8_QuorumApproves ==
  (NumLgtms(cvotes) >= Quorum(crule) /\ NoLaterContradiction(cvotes))
  => cres = IF Counter(cvotes, NA) > 0 THEN NA ELSE APPROVED

\* C8 amended: the same, for the vote sets that do not, under ONE_LGTM, hold
\* exactly one NA_SELF vote together with an NA_VERIFIED vote.
C8_QuorumApprovesUnlessVerified ==
  ( /\ NumLgtms(cvotes) >= Quorum(crule)
    /\ NoLaterContradiction(cvotes)
    /\ ~SelfCertifiedVerified(cvotes, crule) )
  => cres = IF Counter(cvotes, NA) > 0 THEN NA ELSE APPROVED

\* Three approvals, one of them NA, under THREE_LGTM.
C8_Witness ==
  /\ crule = THREE_LGTM
  /\ NumLgtms(cvotes) >= 3
  /\ Counter(cvotes, NA) > 0
  /\ cres = NA

\* C9: a step that only adds or removes NO_RESPONSE votes, at any position
\* and with any timestamp, leaves the computed state unchanged.
C9_NoResponseNeverCounts ==
  [][(WithoutNoResponse(cvotes') = WithoutNoResponse(cvotes)) => cres' = cres
    ]_vars

\* A NO_RESPONSE vote with the latest timestamp stands before a lone
\* NA_SELF vote, and the state is NA_SELF.
C9_Witness ==
  /\ Len(cvotes) = 2
  /\ cvotes[1].state = NO_RESPONSE /\ cvotes[1].set_on > cvotes[2].set_on
  /\ cvotes[2].state = NA_SELF
  /\ cres = NA_SELF

\* C10: under ONE_LGTM, when the only vote other than NO_RESPONSE is one
\* NA_SELF vote the state is NA_SELF, and when NA_VERIFIED votes (one or
\* more) are added to such a set the state is NA_VERIFIED.
C10_SelfCertifiedNa ==
  crule = ONE_LGTM
  => LET vs == WithoutNoResponse(cvotes)
     IN /\ (Len(vs) = 1 /\ vs[1].state = NA_SELF) => cres = NA_SELF
        /\ ( /\ Counter(vs, NA_SELF) = 1
             /\ Counter(vs, NA_VERIFIED) >= 1
             /\ \A i \in DOMAIN vs : vs[i].state \in {NA_SELF, NA_VERIFIED} )
           => cres = NA_VERIFIED

\* NA_SELF, a NO_RESPONSE vote and an NA_VERIFIED vote under ONE_LGTM.
C10_Witness ==
  /\ crule = ONE_LGTM
  /\ Counter(cvotes, NA_SELF) = 1
  /\ Counter(cvotes, NA_VERIFIED) = 1
  /\ Counter(cvotes, NO_RESPONSE) = 1
  /\ cres = NA_VERIFIED

\* The votes in a review state, and the latest of them.
Candidates(vs) == {i \in DOMAIN vs : vs[i].state \in ReviewStates}
Latest(vs) ==
  {i \in Candidates(vs) :
     \A j \in Candidates(vs) : vs[j].set_on <= vs[i].set_on}

\* The self-certification path decides: under ONE_LGTM exactly one NA_SELF
\* vote that is the only counted vote or comes with an NA_VERIFIED vote.
SelfCertifiedPath(vs, rule) ==
  /\ rule = ONE_LGTM
  /\ Counter(vs, NA_SELF) = 1
  /\ (Len(WithoutNoResponse(vs)) = 1 \/ Counter(vs, NA_VERIFIED) >= 1)

C12_PartialApprovalRequestsReview ==
  crule = THREE_LGTM
  => /\ (NumLgtms(cvotes) \in {1, 2} /\ Candidates(cvotes) = {})
        => cres = REVIEW_REQUESTED
     /\ (Counter(cvotes, APPROVED) >= 3 /\ Counter(cvotes, NA) = 0)
        => cres = APPROVED

\* Two approvals, one of them NA, next to a vote that is not a review vote.
C12_Witness ==
  /\ crule = THREE_LGTM
  /\ Len(cvotes) = 3
  /\ Counter(cvotes, APPROVED) = 1 /\ Counter(cvotes, NA) = 1
  /\ Candidates(cvotes) = {}
  /\ cres = REVIEW_REQUESTED

LookupOf(gate_type) ==
  /\ acall'.seq = acall.seq + 1
  /\ acall'.op = "get_approvers"
  /\ acall'.gate_type = gate_type

\* The catalog's gate types whose approvers are the URL of an OWNERS file.
UrlTypes ==
  {t \in DOMAIN APPROVAL_FIELDS_BY_ID :
     APPROVAL_FIELDS_BY_ID[t].approvers = StrApprovers(API_OWNERS_URL)}

\* C13: a get_approvers call made while the entry that an earlier call for
\* the same gate type stored is within its time to live returns the stored
\* list and makes no request, whatever that list is, the empty list included.
C13_SecondCallIsMemoized ==
  [][\A t \in DOMAIN APPROVAL_FIELDS_BY_ID :
       (LookupOf(t) /\ Live(t))
       => /\ acall'.fetched = 0
          /\ acall'.result = cache[t].value
          /\ ~acall'.raised
    ]_vars

\* C14: for a gate type backed by the OWNERS URL, a get_approvers call that
\* finds the cache entry expired makes exactly one request, and a call
\* within the time-to-live window that call opened makes none.  Stated for
\* the calls made while no copy of the OWNERS document is stored.
C14_OneFetchAfterExpiry ==
  [][\A t \in UrlTypes :
       (LookupOf(t) /\ ~owners_file.stored)
       => /\ Expired(t) => acall'.fetched = 1
          /\ time < window[t] => acall'.fetched = 0
    ]_vars

\* C15: a fetch_owners call whose request fails (a status other than 200,
\* or the request raising) does not raise; with a stored OwnersFile it
\* returns the owners of the stored content and stores that content again
\* as fresh, and without one it returns the empty list and stores nothing.
C15_FailedFetchFallsBack ==
  [][(acall'.seq = acall.seq + 1 /\ acall'.resp \in {BAD_STATUS, RAISES})
     => /\ ~acall'.raised
        /\ IF owners_file.stored
             THEN /\ acall'.result
                       = decode_raw_owner_content(owners_file.raw_content)
                  /\ owners_file'
                       = StoredFile(owners_file.raw_content, time)
             ELSE /\ acall'.result = <<>>
                  /\ owners_file' = NoFile
    ]_vars

\* The rotation request of this auto_assign_reviewer call failed, or its
\* body was not JSON, or the payload had no emails field.
RotationFailed ==
  \/ assign'.resp \in {RAISES, BAD_STATUS}
  \/ assign'.resp = OK /\ ~assign'.body.has_emails

\* C16: no auto_assign_reviewer call raises; and a call whose rotation
\* request fails, whose response body is not valid JSON, or whose payload
\* has no emails field leaves the assignees of every gate unchanged.
C16_AutoAssignNeverRaises ==
  [][assign'.n = assign.n + 1
     => /\ ~assign'.raised
        /\ RotationFailed => assignee_emails' = assignee_emails
    ]_vars

\* ------------------------------------------------- claims on the default
\* No branch of _calc_gate_state matches: the self-certification path does
\* not decide, the quorum is not reached, no vote is in a review state, and
\* the rule is not THREE_LGTM with an approval.
NoBranchMatches(vs, rule) ==
  /\ ~SelfCertifiedPath(vs, rule)
  /\ NumLgtms(vs) < Quorum(rule)
  /\ Candidates(vs) = {}
  /\ ~(rule = THREE_LGTM /\ NumLgtms(vs) >= 1)

\* Every Vote row stored for the gate is in state NO_RESPONSE.
NothingCounted == \A v \in get_votes(NoId, GateId, None) : v.state = NO_RESPONSE

\* C21: _calc_gate_state returns PREPARING whenever no branch matches, the
\* empty list and the lists of NO_RESPONSE votes included, under either
\* rule; and a set_vote call that sets a vote to NO_RESPONSE and leaves no
\* counted vote behind returns with the stored gate state PREPARING,
\* whatever the gate state was before.
C21_PreparingByDefault ==
  [][/\ NoBranchMatches(cvotes', crule') => cres' = PREPARING
     /\ \A c \in CallIds :
          ( /\ ~Finished(c) /\ Finished(c)'
            /\ calls[c].new_state = NO_RESPONSE
            /\ NothingCounted' )
          => gates'[GateId].state = PREPARING
    ]_vars

\* A call withdrew the vote that had made the gate APPROVED or
\* REVIEW_REQUESTED, no counted vote is left, and the call stored PREPARING.
C21_Witness ==
  \E c \in CallIds :
    /\ c - 1 \in CallIds
    /\ Finished(c) /\ calls[c].new_state = NO_RESPONSE
    /\ calls[c - 1].by = calls[c].by
    /\ calls[c - 1].ret \in {APPROVED, REVIEW_REQUESTED}
    /\ NothingCounted
    /\ calls[c].wrote_gate /\ calls[c].ret = PREPARING
    /\ gates[GateId].state = PREPARING

\* ------------------------------------------ claims on retired gate types
\* C22: for a gate whose gate type is not in the catalog, the step of
\* set_vote that calls update_gate_approval_state does not raise and leaves
\* in the gate the state that _calc_gate_state returns for the listed votes
\* under ONE_LGTM; the state the call then persists is that state.
C22_UnknownTypeIsOneLgtm ==
  [][\A c \in CallIds :
       calls[c].gate_type \notin DOMAIN APPROVAL_FIELDS_BY_ID
       => /\ (calls[c].pc = "requery" /\ calls'[c].pc \in {"gateput", "done"})
             => /\ ~calls'[c].raised
                /\ \E listing \in Listings(get_votes(NoId, calls[c].gate_id,
                                                      None)) :
                     calls'[c].gate_state = _calc_gate_state(listing, ONE_LGTM)
          /\ (calls[c].pc = "gateput" /\ Finished(c)')
             => gates'[calls[c].gate_id].state = calls[c].gate_state
    ]_vars

\* The gate of a retired type holds one approval and a call has stored the
\* state APPROVED for it (under THREE_LGTM it would be REVIEW_REQUESTED).
C22_Witness ==
  /\ gates[GateId].gate_type = GATE_UNKNOWN
  /\ gates[GateId].state = APPROVED
  /\ Cardinality({v \in get_votes(NoId, GateId, None) : v.state = APPROVED}) = 1
  /\ \E c \in CallIds : Finished(c) /\ calls[c].wrote_gate /\ calls[c].ret = APPROVED

\* --------------------------------------- claims on fields_approvable_by
\* The approver list that get_approvers last returned for the gate type and
\* left in the cache.
CurrentApprovers(gate_type) == Range(cache[gate_type].value)

\* C23: fields_approvable_by returns every gate type of the catalog for a
\* user with admin rights, without looking up any approver list; for any
\* other user a call that returns gives exactly the catalog's gate types
\* whose approver list, as get_approvers returned it in the call, has the
\* user's address.  A gate type outside the catalog is never in the result,
\* and get_approvers returns the empty list for it.
C23_ApprovableFields ==
  [][/\ (fcall'.n = fcall.n + 1 /\ fcall'.is_admin)
        => /\ fcall'.pc = "done" /\ ~fcall'.raised
           /\ fcall'.result = DOMAIN APPROVAL_FIELDS_BY_ID
           /\ acall' = acall /\ cache' = cache
     /\ (fcall.pc = "loop" /\ fcall'.pc = "done" /\ ~fcall'.raised)
        => fcall'.result
             = {t \in DOMAIN APPROVAL_FIELDS_BY_ID :
                  fcall.email \in CurrentApprovers(t)'}
     /\ GATE_UNKNOWN \notin fcall'.result
     /\ LookupOf(GATE_UNKNOWN) => (acall'.result = <<>> /\ ~acall'.raised)
    ]_vars

\* A user without admin rights was told that the two gate types whose
\* approvers are kept in the datastore, and no others, are approvable.
C23_Witness ==
  /\ fcall.pc = "done" /\ ~fcall.is_admin /\ ~fcall.raised
  /\ fcall.result = {GATE_PRIVACY_ORIGIN_TRIAL, GATE_PRIVACY_SHIP}

\* --------------------------------------- claims on auto_assign_reviewer
\* The other gates of the feature of gate g whose gate type has the team
\* and the rule of g's gate type and which have assignees.
Donors(g) ==
  {o \in GateIds \ {g} :
     /\ gates[o] # NoGate /\ gates[o].feature_id = gates[g].feature_id
     /\ APPROVAL_FIELDS_BY_ID[gates[o].gate_type].team_name
          = APPROVAL_FIELDS_BY_ID[gates[g].gate_type].team_name
     /\ APPROVAL_FIELDS_BY_ID[gates[o].gate_type].rule
          = APPROVAL_FIELDS_BY_ID[gates[g].gate_type].rule
     /\ assignee_emails[o] # <<>>}

\* The gate type of gate g has its approvers in the datastore and a
\* rotation URL is configured for it.
HasRotation(g) ==
  /\ APPROVAL_FIELDS_BY_ID[gates[g].gate_type].approvers = StrApprovers(IN_NDB)
  /\ gate_defs[gates[g].gate_type].rotation_url # None

\* C24: an auto_assign_reviewer call for gate g gives g the assignees of
\* another gate of the feature with the same team, the same rule and a
\* non-empty assignee list if there is one, and makes no rotation request
\* then; if there is none it requests the rotation exactly when the gate
\* type's approvers are IN_NDB and a rotation URL is configured, and a call
\* that makes no request and copies nothing leaves the assignees as they
\* were.  No call changes the assignees of another gate, the state of a
\* gate or a Vote row.
C24_CopyBeforeRotation ==
  [][assign'.n = assign.n + 1
     => LET g == assign'.gate_id
        IN /\ Donors(g) # {}
              => /\ \E o \in Donors(g) :
                      assignee_emails'[g] = assignee_emails[o]
                 /\ assign'.resp = NO_REQUEST /\ ~assign'.raised
           /\ Donors(g) = {}
              => /\ assign'.resp # NO_REQUEST <=> HasRotation(g)
                 /\ assign'.resp = NO_REQUEST
                    => assignee_emails' = assignee_emails
           /\ \A o \in GateIds \ {g} :
                assignee_emails'[o] = assignee_emails[o]
           /\ gates' = gates /\ votes' = votes
    ]_vars

\* The first call took the assignees from the rotation, and the second
\* call, for the other gate, copied them without a request.
C24_Witness ==
  /\ assign.n = 2 /\ assign.put /\ assign.resp = NO_REQUEST
  /\ \A g \in GateIds : assignee_emails[g] = JsonWithEmails.emails

\* ------------------------------------------- claims on concurrent votes
\* C25: once every concurrent set_vote call has finished, each voter who
\* made a call on the stored gate has at least one Vote row on it.
C25_VoteNeverLost ==
  Quiescent
  => \A by \in Voters :
       (\E c \in CallIds : Finished(c) /\ calls[c].by = by
                             /\ calls[c].gate_id = GateId)
       => RowsOf(GateId, by) # {}

\* C26: whenever a set_vote call computes a gate state that it goes on to
\* persist, the votes it listed for the gate hold at most one row of each
\* voter.
C26_NoDuplicateCounted ==
  [][\A c \in CallIds :
       (calls[c].pc = "requery" /\ calls'[c].pc = "gateput")
       => \A by \in Voters :
            Cardinality(get_votes(NoId, calls[c].gate_id, by)) <= 1
    ]_vars

\* ------------------------------------------------ claims on timestamps
\* The list with the votes at positions i and j exchanged.
Swap(vs, i, j) == [vs EXCEPT ![i] = vs[j], ![j] = vs[i]]

\* No two votes in a review state have the same set_on.
DistinctReviewTimes(vs) ==
  \A i, j \in Candidates(vs) : i # j => vs[i].set_on # vs[j].set_on

\* C27: when no vote is NA_SELF and the APPROVED and NA votes reach the
\* quorum of the rule, the result is NA if a vote is NA and APPROVED
\* otherwise, whatever votes in review states the list holds and whatever
\* their set_on; and when the votes in review states have pairwise different
\* set_on, exchanging any two votes of the list (hence any reordering of
\* it) leaves the result as it is.
C27_ApprovalIgnoresTimestamps ==
  /\ (Counter(cvotes, NA_SELF) = 0 /\ NumLgtms(cvotes) >= Quorum(crule))
     => cres = (IF Counter(cvotes, NA) > 0 THEN NA ELSE APPROVED)
  /\ DistinctReviewTimes(cvotes)
     => \A i, j \in DOMAIN cvotes :
          i < j => _calc_gate_state(Swap(cvotes, i, j), crule) = cres

\* The quorum is reached and a DENIED vote is later than every approval:
\* the result is APPROVED, in this order of the list and with the DENIED
\* vote first.
C27_Witness ==
  /\ Counter(cvotes, NA_SELF) = 0 /\ NumLgtms(cvotes) >= Quorum(crule)
  /\ Len(cvotes) >= 2 /\ cvotes[Len(cvotes)].state = DENIED
  /\ \A i \in DOMAIN cvotes :
       cvotes[i].state = APPROVED
       => cvotes[i].set_on < cvotes[Len(cvotes)].set_on
  /\ cres = APPROVED
  /\ _calc_gate_state(Swap(cvotes, 1, Len(cvotes)), crule) = APPROVED

====
